---- MODULE Spec2Model ----
(***************************************************************************)
(* A model of the spatial-indexing library: the Base4Int leaf-path codec   *)
(* (src/src/codec.rs), the adaptive quadtree (src/src/quad.rs) with the    *)
(* Bounds2D / Vector2D helpers it uses, the GeoTypes predicates            *)
(* (src/src/lib.rs) and the hash grid (src/src/hashgrid).                  *)
(*                                                                         *)
(* Numbers.  A u128 accumulator is kept as its base-4 numeral: the         *)
(* sequence of its 2-bit digits, most significant first, without leading   *)
(* zeros and never longer than 64 digits (128 bits).  Coordinates are f64  *)
(* in the source; the model keeps them in fixed point, as integer          *)
(* multiples of the smallest step the model represents, and rounds a       *)
(* midpoint that is not representable to the even neighbour as IEEE-754    *)
(* does once the mantissa is exhausted.  Entity corners lie on even        *)
(* coordinates, so every midpoint that decides where an entity with a      *)
(* positive extent goes is exact.                                          *)
(***************************************************************************)
EXTENDS Integers, Sequences, FiniteSets, TLC

VARIABLES
    pc,       \* quadtree driver: "new" (not constructed), "ready", "aborted"
    nodes,    \* the QuadTreeNode objects, keyed by the child indices leading to them
    map,      \* EntityMap: id -> [bounds, path]
    result,   \* what the last quadtree operation returned
    codec,    \* a Base4Int under test: its VecDeque of Base4 blocks
    shadow,   \* the symbols pushed onto codec and not yet popped, oldest first
    cret,     \* what the last Base4Int operation returned
    cpc,      \* codec driver: "running", or "panicked" once an assertion failed
    built,    \* history: the nodes as QuadTree::new returned them
    inserted, \* history: ids whose insert returned Ok(true) since new or clear
    grid,     \* the HashGrid: [grids, params, bounds, wrap]
    gpc,      \* hash grid driver: "new" (not constructed), "ready", "panicked"
    gret,     \* what the last HashGrid operation did
    offered,  \* history: the entities handed to insert/update and their outcome
    kret,     \* the last two evaluations of HashGrid::key, newest last
    geo,      \* the last GeoTypes call: its operands and its outcome
    block,    \* a single Base4 block under test
    bret,     \* what the last operation on block was given and returned
    wret      \* the last two hashes of cells of a wide HashGrid, newest last

vars ==
    <<pc, nodes, map, result, codec, shadow, cret, cpc, built, inserted,
      grid, gpc, gret, offered, kret, geo, block, bret, wret>>
quadVars == <<pc, nodes, map, result, built, inserted>>
codecVars == <<codec, shadow, cret, cpc>>
gridVars == <<grid, gpc, gret, offered>>

keyVars == <<kret>>

geoVars == <<geo>>

blockVars == <<block, bret>>

wideVars == <<wret>>

(***************************************************************************)
(* Bounds of the model.                                                    *)
(***************************************************************************)
MaxInserts == 3    \* entities alive in the quadtree at once
MaxCapacity == 2   \* largest node capacity passed to QuadTree::new
MaxStack == 7      \* nested QuadTreeNode::insert frames the stack can hold
MaxSymbols == 130  \* symbols held by the Base4Int under test
MaxOffered == 2    \* entities handed to one HashGrid
MaxCell == 9       \* largest cell coordinate handed to HashGrid::key directly
MaxHalf == 2       \* largest half-width, half-height and radius of a GeoTypes shape
MaxBlockPush == 65 \* longest slice handed to Base4::push_all on one block
MaxOver == 2       \* cell columns of the wide grid past column 65536

(***************************************************************************)
(* Program constants.                                                      *)
(***************************************************************************)
MAX_QUADS == 4
BlockSymbols == 64

Last(s) == s[Len(s)]
Front(s) == SubSeq(s, 1, Len(s) - 1)
Reverse(s) == [i \in 1..Len(s) |-> s[Len(s) + 1 - i]]
Range(s) == {s[i] : i \in 1..Len(s)}

RECURSIVE Pow2(_)
Pow2(n) == IF n = 0 THEN 1 ELSE 2 * Pow2(n - 1)

RECURSIVE Flatten(_)
Flatten(ss) == IF ss = <<>> THEN <<>> ELSE Head(ss) \o Flatten(Tail(ss))

(***************************************************************************)
(* u128 arithmetic on base-4 numerals (codec.rs lines 142, 155, 156, 186). *)
(***************************************************************************)
Strip(s) ==
    IF s # <<>> /\ s[1] # 0 THEN s
    ELSE IF \A i \in 1..Len(s) : s[i] = 0 THEN <<>>
    ELSE LET k == CHOOSE i \in 1..Len(s) :
                      s[i] # 0 /\ \A j \in 1..(i - 1) : s[j] = 0
         IN  SubSeq(s, k, Len(s))

\* mutant of ShlOr: an accumulator wide enough to keep every digit
ShlOrWide(encoded, integer) == Strip(encoded \o <<integer>>)

\* (encoded << 2) | integer, in 128 bits: the digit shifted past bit 127 is lost
ShlOr(encoded, integer) ==
    LET wide == encoded \o <<integer>>
        kept == IF Len(wide) > BlockSymbols
                THEN SubSeq(wide, Len(wide) - BlockSymbols + 1, Len(wide))
                ELSE wide
    IN  Strip(kept)

\* encoded & 0b11
LowDigit(encoded) == IF encoded = <<>> THEN 0 ELSE Last(encoded)

\* encoded >> 2
Shr2(encoded) == IF encoded = <<>> THEN <<>> ELSE Front(encoded)

\* (encoded >> (2 * k)) & 0b11
DigitAt(encoded, k) ==
    IF k < Len(encoded) THEN encoded[Len(encoded) - k] ELSE 0

(***************************************************************************)
(* Base4: one block.                                                       *)
(***************************************************************************)
Base4New == [size |-> 0, encoded |-> <<>>]

Base4Push(b, integer) ==
    [size |-> b.size + 1, encoded |-> ShlOr(b.encoded, integer)]

Base4Pop(b) ==
    [out |-> LowDigit(b.encoded),
     block |-> [size |-> b.size - 1, encoded |-> Shr2(b.encoded)]]

RECURSIVE Base4Drain(_, _)
\* the pops of Base4::pop_all, in the order they are made
Base4Drain(b, n) ==
    IF n = 0 THEN <<>>
    ELSE LET r == Base4Pop(b) IN <<r.out>> \o Base4Drain(r.block, n - 1)

Base4PopAll(b) == Reverse(Base4Drain(b, b.size))

\* mutant of Base4PeekAt: the shift is 2 * index, counted from the newest symbol
Base4PeekFromLow(b, index) == DigitAt(b.encoded, index)

Base4PeekAt(b, index) == DigitAt(b.encoded, b.size - index - 1)

RECURSIVE Base4PushAll(_, _)
\* Base4::push_all: push in a loop; the assertion of push ends the loop at the
\* first integer that is no symbol, with the earlier ones pushed.  The loop is
\* unfolded by halves, first half before second.
Base4PushAll(b, ints) ==
    IF ints = <<>> THEN [fatal |-> FALSE, block |-> b]
    ELSE IF Len(ints) = 1
    THEN IF ints[1] >= 4 THEN [fatal |-> TRUE, block |-> b]
         ELSE [fatal |-> FALSE, block |-> Base4Push(b, ints[1])]
    ELSE LET h == Len(ints) \div 2
             first == Base4PushAll(b, SubSeq(ints, 1, h))
         IN  IF first.fatal THEN first
             ELSE Base4PushAll(first.block, SubSeq(ints, h + 1, Len(ints)))

RECURSIVE Base4AfterPops(_, _)
\* the block that n calls of Base4::pop leave, unfolded by halves
Base4AfterPops(b, n) ==
    IF n = 0 THEN b
    ELSE IF n = 1 THEN Base4Pop(b).block
    ELSE LET h == n \div 2
             mid == Base4AfterPops(b, h)
         IN  IF mid.size >= 0 THEN Base4AfterPops(mid, n - h) ELSE mid

(***************************************************************************)
(* Base4Int: a deque of blocks.                                            *)
(***************************************************************************)
Base4IntNew == <<>>

RECURSIVE SumSizes(_)
SumSizes(c) == IF c = <<>> THEN 0 ELSE c[1].size + SumSizes(Tail(c))

TotalLen(c) == SumSizes(c)

TotalBlocks(c) == Len(c)

\* get_codec followed by Base4::push
IntPush(c, integer) ==
    IF Len(c) > 0 /\ Last(c).size < BlockSymbols
    THEN [c EXCEPT ![Len(c)] = Base4Push(@, integer)]
    ELSE Append(c, Base4Push(Base4New, integer))

\* mutant of Push: the block is fetched with get_codec before the symbol is
\* tested
PushBlockFirst(c, integer) ==
    LET fetched == IF Len(c) > 0 /\ Last(c).size < BlockSymbols
                   THEN c ELSE Append(c, Base4New)
    IN  IF ~(integer < 4) THEN [fatal |-> TRUE, codec |-> fetched]
        ELSE [fatal |-> FALSE, codec |-> IntPush(c, integer)]

\* Base4Int::push with its assertion (lines 26-29): [fatal, codec]
Push(c, integer) ==
    IF ~(integer < 4) THEN [fatal |-> TRUE, codec |-> c]
    ELSE [fatal |-> FALSE, codec |-> IntPush(c, integer)]

\* mutant of IntPop: the block that became empty is kept
IntPopKeepsBlock(c) ==
    LET r == Base4Pop(Last(c))
    IN  [out |-> r.out, codec |-> [c EXCEPT ![Len(c)] = r.block]]

IntPop(c) ==
    LET r == Base4Pop(Last(c))
    IN  [out |-> r.out,
         codec |-> IF r.block.size = 0 THEN Front(c)
                   ELSE [c EXCEPT ![Len(c)] = r.block]]

RECURSIVE PopAllNewestFirst(_)
\* mutant of IntPopAll: the blocks are drained with pop_back
PopAllNewestFirst(c) ==
    IF c = <<>> THEN <<>> ELSE Base4PopAll(Last(c)) \o PopAllNewestFirst(Front(c))

RECURSIVE IntPopAll(_)
\* pop_front each block and extend the output with its symbols
IntPopAll(c) ==
    IF c = <<>> THEN <<>> ELSE Base4PopAll(c[1]) \o IntPopAll(Tail(c))

IntPeekAt(c, index) ==
    Base4PeekAt(c[(index \div BlockSymbols) + 1], index % BlockSymbols)

\* Base4Int::pop with the panic of line 40: [fatal, out, codec]
Pop(c) ==
    IF c = <<>> THEN [fatal |-> TRUE, out |-> 0, codec |-> c]
    ELSE [fatal |-> FALSE, out |-> IntPop(c).out, codec |-> IntPop(c).codec]

\* Base4Int::peek_at with its assertion (lines 78-83): [fatal, out]
PeekAt(c, index) ==
    IF ~(index < TotalLen(c)) THEN [fatal |-> TRUE, out |-> 0]
    ELSE [fatal |-> FALSE, out |-> IntPeekAt(c, index)]

(***************************************************************************)
(* The Base4Int under test.  A caller may push any symbol of 0..3; the     *)
(* model lets it choose freely at the first and the last slot of every     *)
(* block and follows a fixed pattern in between.                           *)
(***************************************************************************)
PatternSymbol(i) == (i + (i \div 3)) % 4

PushInputs(i) ==
    IF i % BlockSymbols \in {0, BlockSymbols - 1} THEN {0, 3}
    ELSE {PatternSymbol(i)}

\* values a caller can hand to push that are no symbols
BadSymbols == {4, 255}

\* the indices handed to peek_at: the oldest symbol, the newest one, and the
\* first index past the end
PeekIndices(c) == {0, TotalLen(c)} \cup {i \in {TotalLen(c) - 1} : i >= 0}

\* what an operation that panicked leaves in cret
Panicked(op) == [op |-> "panic", in |-> op]

\* the slice handed to push_all when the codec already holds `from` symbols
Slice(from, n, q) ==
    [k \in 1..n |->
        IF (from + k - 1) % BlockSymbols \in {0, BlockSymbols - 1} THEN q
        ELSE PatternSymbol(from + k - 1)]

PushAllLengths == {0, 1, 63, 64, 65, 127, 128, 129}

RECURSIVE IntPushAll(_, _)
\* push_all: push each integer of the slice in turn.  The loop is unfolded by
\* halves, first half before second, and Len(c) is read first so that the
\* pushes made so far are evaluated before the next one: both only keep the
\* evaluation shallow.
IntPushAll(c, ints) ==
    IF Len(c) >= 0 /\ ints = <<>> THEN c
    ELSE IF Len(ints) = 1 THEN IntPush(c, ints[1])
    ELSE LET h == Len(ints) \div 2
         IN  IntPushAll(IntPushAll(c, SubSeq(ints, 1, h)),
                        SubSeq(ints, h + 1, Len(ints)))

CodecPush ==
    /\ cpc = "running"
    /\ TotalLen(codec) < MaxSymbols
    /\ \E integer \in PushInputs(TotalLen(codec)) \cup BadSymbols :
          LET r == Push(codec, integer)
          IN  /\ codec' = r.codec
              /\ shadow' = IF r.fatal THEN shadow ELSE Append(shadow, integer)
              /\ cret' = IF r.fatal THEN Panicked("push") ELSE [op |-> "push"]
              /\ cpc' = IF r.fatal THEN "panicked" ELSE "running"
    /\ UNCHANGED <<quadVars, gridVars, keyVars, geoVars, blockVars, wideVars>>

\* push_all is push in a loop; the driver hands it a slice when the codec is
\* empty or holds a single symbol, and pushes one by one otherwise
CodecPushAll ==
    /\ cpc = "running"
    /\ TotalLen(codec) <= 1
    /\ \E n \in PushAllLengths, q \in {0, 3} :
          /\ TotalLen(codec) + n <= MaxSymbols
          /\ LET ints == Slice(TotalLen(codec), n, q)
             IN  /\ codec' = IntPushAll(codec, ints)
                 /\ shadow' = shadow \o ints
                 /\ cret' = [op |-> "push_all", onto |-> TotalLen(codec),
                             len |-> n]
    /\ UNCHANGED <<cpc, quadVars, gridVars, keyVars, geoVars, blockVars, wideVars>>

CodecPop ==
    /\ cpc = "running"
    /\ LET r == Pop(codec)
       IN  /\ codec' = r.codec
           /\ cret' = IF r.fatal THEN Panicked("pop")
                      ELSE [op |-> "pop", out |-> r.out]
           /\ shadow' = IF r.fatal THEN shadow ELSE Front(shadow)
           /\ cpc' = IF r.fatal THEN "panicked" ELSE "running"
    /\ UNCHANGED <<quadVars, gridVars, keyVars, geoVars, blockVars, wideVars>>

CodecPeekAt ==
    /\ cpc = "running"
    /\ \E index \in PeekIndices(codec) :
          LET r == PeekAt(codec, index)
          IN  /\ cret' = IF r.fatal THEN Panicked("peek_at")
                         ELSE [op |-> "peek_at", index |-> index, out |-> r.out]
              /\ cpc' = IF r.fatal THEN "panicked" ELSE "running"
    /\ UNCHANGED <<codec, shadow, quadVars, gridVars, keyVars, geoVars, blockVars, wideVars>>

CodecPopAll ==
    /\ cpc = "running"
    /\ cret' = [op |-> "pop_all", out |-> IntPopAll(codec),
                after |-> cret.op,
                onto |-> IF cret.op = "push_all" THEN cret.onto ELSE 0]
    /\ codec' = Base4IntNew
    /\ shadow' = <<>>
    /\ UNCHANGED <<cpc, quadVars, gridVars, keyVars, geoVars, blockVars, wideVars>>

(***************************************************************************)
(* Vector2D and Bounds2D (lib.rs).  A vector is <<x, y>>.                  *)
(***************************************************************************)
\* #[derive(PartialOrd)] on Vector2D(f64, f64): the derived `<` compares the
\* first component and looks at the second only when the first ones are equal
Vector2DLt(a, b) == a[1] < b[1] \/ (a[1] = b[1] /\ a[2] < b[2])

\* n / 2. for a sum n of two coordinates: exact when representable, else the
\* even one of the two neighbours
HalfOf(n) ==
    IF n % 2 = 0 THEN n \div 2
    ELSE LET below == (n - 1) \div 2
         IN  IF below % 2 = 0 THEN below ELSE below + 1

Bounds2DNew(min, max) == [min |-> min, max |-> max]

FromCenterSize(center, size) ==
    [min |-> <<center[1] - HalfOf(size[1]), center[2] - HalfOf(size[2])>>,
     max |-> <<center[1] + HalfOf(size[1]), center[2] + HalfOf(size[2])>>]

\* mutant of Contains: only the minimum corner of other is tested
ContainsMin(self, other) ==
    /\ self.min[1] <= other.min[1]
    /\ self.min[2] <= other.min[2]
    /\ self.max[1] >= other.min[1]
    /\ self.max[2] >= other.min[2]

Contains(self, other) ==
    /\ self.min[1] <= other.min[1]
    /\ self.min[2] <= other.min[2]
    /\ self.max[1] >= other.max[1]
    /\ self.max[2] >= other.max[2]

Intersects(self, other) ==
    /\ self.min[1] < other.max[1]
    /\ self.max[1] > other.min[1]
    /\ self.min[2] < other.max[2]
    /\ self.max[2] > other.min[2]

ContainsPoint(self, point) ==
    /\ point[1] >= self.min[1]
    /\ point[2] >= self.min[2]
    /\ point[1] <= self.max[1]
    /\ point[2] <= self.max[2]

(***************************************************************************)
(* QuadTreeNode.  The node reached from the root through the children      *)
(* k1, k2, ... is nodes[<<k1, k2, ...>>]; quadrants is Some exactly when    *)
(* leaf is FALSE, and then the four boxed children are the nodes at         *)
(* Append(p, 0) .. Append(p, 3).                                            *)
(***************************************************************************)
Root == <<>>
Quads == 0..(MAX_QUADS - 1)

NodeNew(min, max, capacity, depth) ==
    [boundary |-> Bounds2DNew(min, max), items |-> <<>>, capacity |-> capacity,
     depth |-> depth, leaf |-> TRUE]

WithBounds(boundary, capacity, depth) ==
    [boundary |-> boundary, items |-> <<>>, capacity |-> capacity,
     depth |-> depth, leaf |-> TRUE]

IsLeaf(ns, p) == ns[p].leaf

\* the boundaries of the four quadrants, in the order NE, NW, SE, SW
ChildBounds(b) ==
    LET center == <<HalfOf(b.min[1] + b.max[1]), HalfOf(b.min[2] + b.max[2])>>
        min == b.max
        max == b.min
    IN  <<Bounds2DNew(center, b.max),
          Bounds2DNew(<<min[1], center[2]>>, <<center[1], max[2]>>),
          Bounds2DNew(<<center[1], min[2]>>, <<max[1], center[2]>>),
          Bounds2DNew(b.min, center)>>

Subdivide(ns, p) ==
    LET cb == ChildBounds(ns[p].boundary)
        new_depth == ns[p].depth + 1
        kids == [q \in {Append(p, k) : k \in Quads} |->
                    WithBounds(cb[Last(q) + 1], ns[p].capacity, new_depth)]
    IN  [q \in DOMAIN ns \cup DOMAIN kids |->
            IF q \in DOMAIN kids THEN kids[q]
            ELSE IF q = p THEN [ns[p] EXCEPT !.leaf = FALSE]
            ELSE ns[q]]

RECURSIVE MaxSubtreeDepth(_, _)
MaxSubtreeDepth(ns, p) ==
    IF ~IsLeaf(ns, p)
    THEN LET ds == {MaxSubtreeDepth(ns, Append(p, k)) : k \in Quads}
         IN  CHOOSE d \in ds : \A e \in ds : e <= d
    ELSE ns[p].depth

Levels(ns) == MaxSubtreeDepth(ns, Root) + 1

(***************************************************************************)
(* Levels, the iterator iter_levels() returns: [current_level, max_depth]  *)
(* over the tree it borrows.                                               *)
(***************************************************************************)
\* Levels::new
LevelsNew(ns) == [current_level |-> 0, max_depth |-> MaxSubtreeDepth(ns, Root)]

RECURSIVE GatherAtDepth(_, _, _)
\* Levels::gather_at_depth: what the call pushes onto the container
GatherAtDepth(ns, p, current_level) ==
    IF ns[p].depth = current_level THEN ns[p].items
    ELSE IF ns[p].depth < current_level /\ ~IsLeaf(ns, p)
    THEN Flatten([k \in 1..MAX_QUADS |-> GatherAtDepth(ns, Append(p, k - 1), current_level)])
    ELSE <<>>

\* mutant of LevelsIterNext: the iterator ends when it reaches max_depth
LevelsIterNextShort(ns, it) ==
    IF it.current_level >= it.max_depth THEN [some |-> FALSE, item |-> <<>>, it |-> it]
    ELSE [some |-> TRUE, item |-> GatherAtDepth(ns, Root, it.current_level),
          it |-> [it EXCEPT !.current_level = @ + 1]]

\* Iterator::next for Levels: [some, item, it]
LevelsIterNext(ns, it) ==
    IF it.current_level > it.max_depth THEN [some |-> FALSE, item |-> <<>>, it |-> it]
    ELSE [some |-> TRUE, item |-> GatherAtDepth(ns, Root, it.current_level),
          it |-> [it EXCEPT !.current_level = @ + 1]]

RECURSIVE LevelsCollect(_, _)
\* the elements next() yields from it until it returns None
LevelsCollect(ns, it) ==
    LET r == LevelsIterNext(ns, it)
    IN  IF r.some THEN <<r.item>> \o LevelsCollect(ns, r.it) ELSE <<>>

\* QuadTree::iter_levels, run to its end
IterLevels(ns) == LevelsCollect(ns, LevelsNew(ns))

(***************************************************************************)
(* QuadTreeNode::insert.  The value threaded through the recursion is      *)
(* [nodes, map, ret, how, overflow, splits]: the tree and the entity map   *)
(* as the call leaves them, its return value, how the id was stored        *)
(* ("slot": the push of line 282, "kept": the push of line 302 or 311      *)
(* after no child took it), whether the recursion ran out of stack, and    *)
(* the subdivide() calls made so far.  fuel is the number of frames left.  *)
(***************************************************************************)
\* the record of one subdivide() call (line 287): the node, the items it held
\* and its capacity
Split(ns, p) ==
    [at |-> p, held |-> Len(ns[p].items), capacity |-> ns[p].capacity]

\* mutant of PathPush: the symbol pushed is the root's index
PathPushRoot(m, id, nidx) == [m EXCEPT ![id].path = IntPush(@, 0)]

PathPush(m, id, nidx) == [m EXCEPT ![id].path = IntPush(@, nidx)]

RECURSIVE NodeInsert(_, _, _, _, _)
RECURSIVE TryQuads(_, _, _, _, _)
RECURSIVE Redistribute(_, _, _, _)

\* quads.iter_mut().enumerate().any(|(nidx, quad)| quad.insert(id, map, nidx))
TryQuads(st, p, id, k, fuel) ==
    IF k = MAX_QUADS THEN [st EXCEPT !.ret = FALSE]
    ELSE LET r == NodeInsert(st, Append(p, k), id, k, fuel - 1)
         IN  IF r.overflow \/ r.ret THEN r
             ELSE TryQuads(r, p, id, k + 1, fuel)

\* mutant of Redistribute: an id no quadrant takes is not pushed back
RedistributeDropsKept(st, p, ids, fuel) ==
    IF ids = <<>> THEN [st EXCEPT !.ret = TRUE]
    ELSE LET r == TryQuads(st, p, Head(ids), 0, fuel)
         IN  IF r.overflow THEN r
             ELSE Redistribute(r, p, Tail(ids), fuel)

\* mutant of Redistribute: only the new id is offered to the quadrants, the
\* ids the node held stay where they were
RedistributeNewOnly(st, p, ids, fuel) ==
    IF ids = <<>> THEN [st EXCEPT !.ret = TRUE]
    ELSE LET r == IF Len(ids) = 1 THEN TryQuads(st, p, Head(ids), 0, fuel)
                  ELSE [st EXCEPT !.ret = FALSE]
             kept == [r EXCEPT !.nodes[p].items = Append(@, Head(ids)),
                               !.how = "kept"]
         IN  IF r.overflow THEN r
             ELSE Redistribute(IF r.ret THEN r ELSE kept, p, Tail(ids), fuel)

\* lines 296-312: every id taken from the node, then the new one, is offered
\* to the quadrants and pushed back onto this node when none takes it
Redistribute(st, p, ids, fuel) ==
    IF ids = <<>> THEN [st EXCEPT !.ret = TRUE]
    ELSE LET r == TryQuads(st, p, Head(ids), 0, fuel)
             kept == [r EXCEPT !.nodes[p].items = Append(@, Head(ids)),
                               !.how = "kept"]
         IN  IF r.overflow THEN r
             ELSE Redistribute(IF r.ret THEN r ELSE kept, p, Tail(ids), fuel)

\* mutant of NodeInsert: the capacity test is items.len() <= capacity
NodeInsertOneMore(st, p, id, nidx, fuel) ==
    IF fuel = 0 THEN [st EXCEPT !.overflow = TRUE, !.ret = FALSE]
    ELSE IF ~Contains(st.nodes[p].boundary, st.map[id].bounds)
    THEN [st EXCEPT !.ret = FALSE]
    ELSE LET pushed == [st EXCEPT !.map = PathPush(@, id, nidx)]
         IN  IF Len(st.nodes[p].items) <= st.nodes[p].capacity
             THEN [pushed EXCEPT !.nodes[p].items = Append(@, id),
                                 !.ret = TRUE, !.how = "slot"]
             ELSE LET split == IF IsLeaf(st.nodes, p)
                               THEN Subdivide(st.nodes, p) ELSE st.nodes
                      all_ids == st.nodes[p].items
                      taken == [pushed EXCEPT
                                   !.nodes = [split EXCEPT ![p].items = <<>>],
                                   !.splits = IF IsLeaf(st.nodes, p)
                                              THEN Append(@, Split(st.nodes, p))
                                              ELSE @]
                  IN  Redistribute(taken, p, Append(all_ids, id), fuel)

NodeInsert(st, p, id, nidx, fuel) ==
    IF fuel = 0 THEN [st EXCEPT !.overflow = TRUE, !.ret = FALSE]
    ELSE IF ~Contains(st.nodes[p].boundary, st.map[id].bounds)
    THEN [st EXCEPT !.ret = FALSE]
    ELSE LET pushed == [st EXCEPT !.map = PathPush(@, id, nidx)]
         IN  IF Len(st.nodes[p].items) < st.nodes[p].capacity
             THEN [pushed EXCEPT !.nodes[p].items = Append(@, id),
                                 !.ret = TRUE, !.how = "slot"]
             ELSE LET split == IF IsLeaf(st.nodes, p)
                               THEN Subdivide(st.nodes, p) ELSE st.nodes
                      all_ids == st.nodes[p].items
                      taken == [pushed EXCEPT
                                   !.nodes = [split EXCEPT ![p].items = <<>>],
                                   !.splits = IF IsLeaf(st.nodes, p)
                                              THEN Append(@, Split(st.nodes, p))
                                              ELSE @]
                  IN  Redistribute(taken, p, Append(all_ids, id), fuel)

(***************************************************************************)
(* Queries.  A collector is the sequence of the ids of the entities        *)
(* pushed onto it; a predicate is "all" (|_, _| true) or a test of the id. *)
(***************************************************************************)
Holds(pred, id) == pred.kind = "all" \/ pred.id = id

RECURSIVE QueryWithPointLeavesOnly(_, _, _, _, _)
\* mutant of QueryWithPoint: the items of a node that has quadrants are skipped
QueryWithPointLeavesOnly(ns, m, p, point, pred) ==
    IF ~ContainsPoint(ns[p].boundary, point) THEN <<>>
    ELSE IF IsLeaf(ns, p)
    THEN SelectSeq(ns[p].items,
             LAMBDA id : ContainsPoint(m[id].bounds, point) /\ Holds(pred, id))
    ELSE Flatten([k \in 1..MAX_QUADS |->
             QueryWithPointLeavesOnly(ns, m, Append(p, k - 1), point, pred)])

RECURSIVE QueryWithPoint(_, _, _, _, _)
QueryWithPoint(ns, m, p, point, pred) ==
    IF ~ContainsPoint(ns[p].boundary, point) THEN <<>>
    ELSE LET own == SelectSeq(ns[p].items,
                        LAMBDA id : ContainsPoint(m[id].bounds, point)
                                    /\ Holds(pred, id))
         IN  IF IsLeaf(ns, p) THEN own
             ELSE own \o Flatten([k \in 1..MAX_QUADS |->
                            QueryWithPoint(ns, m, Append(p, k - 1), point, pred)])

RECURSIVE QueryWithinBoundsFirstHit(_, _, _, _, _)
\* mutant of QueryWithinBounds: the walk over the quadrants ends at the first
\* quadrant that contributed an entity
QueryWithinBoundsFirstHit(ns, m, p, bounds, pred) ==
    IF ~Intersects(ns[p].boundary, bounds) THEN <<>>
    ELSE LET own == SelectSeq(ns[p].items,
                        LAMBDA id : Intersects(m[id].bounds, bounds)
                                    /\ Holds(pred, id))
             sub == [k \in 1..MAX_QUADS |->
                        QueryWithinBoundsFirstHit(ns, m, Append(p, k - 1),
                                                  bounds, pred)]
             hits == {k \in 1..MAX_QUADS : sub[k] # <<>>}
         IN  IF IsLeaf(ns, p) \/ hits = {} THEN own
             ELSE own \o sub[CHOOSE k \in hits : \A j \in hits : k <= j]

RECURSIVE QueryWithinBounds(_, _, _, _, _)
QueryWithinBounds(ns, m, p, bounds, pred) ==
    IF ~Intersects(ns[p].boundary, bounds) THEN <<>>
    ELSE LET own == SelectSeq(ns[p].items,
                        LAMBDA id : Intersects(m[id].bounds, bounds)
                                    /\ Holds(pred, id))
         IN  IF IsLeaf(ns, p) THEN own
             ELSE own \o Flatten([k \in 1..MAX_QUADS |->
                            QueryWithinBounds(ns, m, Append(p, k - 1), bounds, pred)])

\* Option<Entities>: None when the collector is empty
OptionOf(collector) ==
    IF collector = <<>> THEN [some |-> FALSE]
    ELSE [some |-> TRUE, entities |-> collector]

QueryPointAndFilter(ns, m, point, pred) ==
    OptionOf(QueryWithPoint(ns, m, Root, point, pred))

QueryPoint(ns, m, point) ==
    OptionOf(QueryWithPoint(ns, m, Root, point, [kind |-> "all"]))

QueryBoundsAndFilter(ns, m, center, size, pred) ==
    OptionOf(QueryWithinBounds(ns, m, Root, FromCenterSize(center, size), pred))

QueryBounds(ns, m, center, size) ==
    OptionOf(QueryWithinBounds(ns, m, Root, FromCenterSize(center, size),
                               [kind |-> "all"]))

(***************************************************************************)
(* The inputs of the quadtree driver.                                      *)
(***************************************************************************)
Box(x0, y0, x1, y1) == Bounds2DNew(<<x0, y0>>, <<x1, y1>>)

EntityBounds ==
    {Box(0, 0, 8, 8),      \* the whole root
     Box(2, 2, 2, 2),      \* a point
     Box(6, 6, 8, 8),      \* inside the north-east quadrant
     Box(0, 0, 2, 2),      \* inside the south-west quadrant
     Box(2, 2, 4, 4),      \* south-west, then its north-east quadrant
     Box(2, 2, 6, 6),      \* across the centre
     Box(0, 6, 2, 8),      \* in the north-west corner
     Box(6, 6, 10, 10)}    \* reaches outside the root

NewMins == {<<0, 0>>, <<0, 8>>, <<8, 8>>}
NewMaxs == {<<8, 8>>, <<8, 0>>, <<0, 0>>}

QueryPoints ==
    {<<1, 1>>, <<2, 2>>, <<3, 3>>, <<4, 4>>, <<7, 7>>, <<1, 7>>, <<8, 8>>, <<9, 9>>}

\* <<center, size>> of the search rectangles
QueryRects ==
    {<<<<1, 1>>, <<2, 2>>>>, <<<<4, 4>>, <<4, 4>>>>, <<<<4, 4>>, <<8, 8>>>>,
     <<<<7, 7>>, <<2, 2>>>>, <<<<1, 7>>, <<2, 2>>>>, <<<<2, 2>>, <<0, 0>>>>,
     <<<<3, 3>>, <<2, 2>>>>, <<<<11, 11>>, <<2, 2>>>>}

Predicates == {[kind |-> "all"], [kind |-> "id", id |-> 1], [kind |-> "id", id |-> 2]}

(***************************************************************************)
(* QuadTree: the operations of the public interface.                       *)
(***************************************************************************)
\* the error QuadTree::new returns, or "Ok"
NewOutcome(min, max, capacity) ==
    IF ~(capacity > 0) THEN "InvalidCapacity"
    ELSE IF ~Vector2DLt(min, max) THEN "InvalidBounds"
    ELSE "Ok"

FreshNodes(min, max, capacity) ==
    [p \in {Root} |-> NodeNew(min, max, capacity, 0)]

EmptyMap == <<>>

InsertEntity(m, id, bounds, path) ==
    [i \in DOMAIN m \cup {id} |->
        IF i = id THEN [bounds |-> bounds, path |-> path] ELSE m[i]]

\* EntityMap::drain: the entities, in no particular order
Drain(m) == {[id |-> i, bounds |-> m[i].bounds] : i \in DOMAIN m}

\* QuadTreeNode::drain: every node of the subtree loses its items
NodeDrain(ns) == [p \in DOMAIN ns |-> [ns[p] EXCEPT !.items = <<>>]]

\* mutant of ClearedNodes: the nodes are drained and the root is kept
ClearedNodesKeepsRoot(ns) == NodeDrain(ns)

\* mutant of ClearOut: the entities returned are those the root node held
ClearOutFromRoot(ns, m) ==
    {[id |-> i, bounds |-> m[i].bounds] : i \in Range(ns[Root].items)}

\* what clear() returns: the drained map (line 85)
ClearOut(ns, m) == Drain(m)

\* the root that clear() leaves: the drained root is replaced by a new node
ClearedNodes(ns) ==
    LET drained == NodeDrain(ns)
    IN  FreshNodes(drained[Root].boundary.min, drained[Root].boundary.max,
                   drained[Root].capacity)

\* the call self.root.insert(id, &mut self.map, 0) of line 69
RootInsert(ns, m, id) ==
    NodeInsert([nodes |-> ns, map |-> m, ret |-> FALSE, how |-> "none",
                overflow |-> FALSE, splits |-> <<>>], Root, id, 0, MaxStack)

\* mutant of TreeInsert: the entity is recorded before the bounds are tested
TreeInsertRecordsFirst(ns, m, id, bounds) ==
    LET recorded == InsertEntity(m, id, bounds, Base4IntNew)
    IN  IF ~Contains(ns[Root].boundary, bounds)
        THEN [res |-> "OutOfBounds", ret |-> FALSE, how |-> "none",
              nodes |-> ns, map |-> recorded, splits |-> <<>>]
        ELSE LET r == RootInsert(ns, recorded, id)
             IN  IF r.overflow
                 THEN [res |-> "StackOverflow", ret |-> FALSE, how |-> "none",
                       nodes |-> r.nodes, map |-> r.map, splits |-> r.splits]
                 ELSE [res |-> "Ok", ret |-> r.ret, how |-> r.how,
                       nodes |-> r.nodes, map |-> r.map, splits |-> r.splits]

\* QuadTree::insert: [res, ret, how, nodes, map, splits]; res is "OutOfBounds",
\* "Ok" (with the boolean ret) or "StackOverflow" when the recursion never
\* returns
TreeInsert(ns, m, id, bounds) ==
    IF ~Contains(ns[Root].boundary, bounds)
    THEN [res |-> "OutOfBounds", ret |-> FALSE, how |-> "none",
          nodes |-> ns, map |-> m, splits |-> <<>>]
    ELSE LET r == RootInsert(ns, InsertEntity(m, id, bounds, Base4IntNew), id)
         IN  IF r.overflow
             THEN [res |-> "StackOverflow", ret |-> FALSE, how |-> "none",
                   nodes |-> r.nodes, map |-> r.map, splits |-> r.splits]
             ELSE [res |-> "Ok", ret |-> r.ret, how |-> r.how,
                   nodes |-> r.nodes, map |-> r.map, splits |-> r.splits]

New ==
    /\ pc = "new"
    /\ \E min \in NewMins, max \in NewMaxs, capacity \in 0..MaxCapacity :
          LET outcome == NewOutcome(min, max, capacity)
          IN  /\ result' = [op |-> "new", res |-> outcome, min |-> min,
                            max |-> max, capacity |-> capacity]
              /\ IF outcome = "Ok"
                 THEN /\ pc' = "ready"
                      /\ nodes' = FreshNodes(min, max, capacity)
                      /\ map' = EmptyMap
                      /\ built' = FreshNodes(min, max, capacity)
                 ELSE UNCHANGED <<pc, nodes, map, built>>
    /\ UNCHANGED <<inserted, codecVars, gridVars, keyVars, geoVars, blockVars, wideVars>>

\* entity ids are unique and opaque: the caller hands out the smallest one
\* that no stored entity carries
NextId ==
    CHOOSE i \in 1..(MaxInserts + 1) :
        i \notin DOMAIN map /\ \A j \in 1..(i - 1) : j \in DOMAIN map

Insert ==
    /\ pc = "ready"
    /\ Cardinality(DOMAIN map) < MaxInserts
    /\ \E bounds \in EntityBounds :
          LET id == NextId
              r == TreeInsert(nodes, map, id, bounds)
          IN  /\ result' = [op |-> "insert", id |-> id, bounds |-> bounds,
                            res |-> r.res, ret |-> r.ret, how |-> r.how,
                            splits |-> r.splits,
                            levels_before |-> Levels(nodes),
                            levels_after |-> IF r.res = "StackOverflow"
                                             THEN Levels(nodes)
                                             ELSE Levels(r.nodes)]
              /\ IF r.res = "StackOverflow"
                 THEN \* the process is gone, and the tree with it
                      /\ pc' = "aborted"
                      /\ UNCHANGED <<nodes, map, inserted>>
                 ELSE /\ nodes' = r.nodes
                      /\ map' = r.map
                      /\ inserted' = IF r.res = "Ok" /\ r.ret
                                     THEN Append(inserted, id) ELSE inserted
                      /\ UNCHANGED pc
    /\ UNCHANGED <<built, codecVars, gridVars, keyVars, geoVars, blockVars, wideVars>>

Clear ==
    /\ pc = "ready"
    /\ result' = [op |-> "clear", out |-> ClearOut(nodes, map)]
    /\ map' = EmptyMap
    /\ nodes' = ClearedNodes(nodes)
    /\ inserted' = <<>>
    /\ UNCHANGED <<pc, built, codecVars, gridVars, keyVars, geoVars, blockVars, wideVars>>

(***************************************************************************)
(* HashGrid (src/src/hashgrid).  Coordinates are f32 values; the model     *)
(* keeps them as integers and draws sizes, cell counts and positions so    *)
(* that every quotient the constructor forms is an integer, and floor()    *)
(* of a quotient is integer floor division.  A position is <<x, y, z>>.    *)
(***************************************************************************)
\* f32::abs
Abs(x) == IF x < 0 THEN -x ELSE x

\* f32::max
Max(a, b) == IF a >= b THEN a ELSE b

\* f32::min
Min(a, b) == IF a <= b THEN a ELSE b

\* half_size of Boundary's methods: size / 2 per axis (sizes are even here)
HalfSize(b) == [i \in 1..3 |-> b.size[i] \div 2]

\* Boundary::boundary_max
BoundaryMax(b) == [i \in 1..3 |-> b.center[i] + HalfSize(b)[i]]

\* Boundary::boundary_min
BoundaryMin(b) == [i \in 1..3 |-> b.center[i] - HalfSize(b)[i]]

\* Boundary::is_inside: point - |centre| <= half_size on every axis
IsInside(b, point) ==
    LET dx == point[1] - Abs(b.center[1])
        dy == point[2] - Abs(b.center[2])
        dz == point[3] - Abs(b.center[3])
    IN  dx <= HalfSize(b)[1] /\ dy <= HalfSize(b)[2] /\ dz <= HalfSize(b)[3]

\* CellsPerAxis::from
CellsPerAxisFrom(cells, floors) ==
    [xcells |-> cells[1], ycells |-> cells[2], floors |-> floors]

\* mutant of HashGridNew: the floor height is not raised to one
HashGridNewNoFloorClamp(cells, floors, bounds, wrap) ==
    LET fl == Max(floors, 1)
    IN  [grids  |-> [f \in 1..fl |-> <<>>],
         params |-> [cell_per_axis |-> CellsPerAxisFrom(cells, fl),
                     cell_sizes |-> [x_size |-> bounds.size[1] \div cells[1],
                                     y_size |-> bounds.size[2] \div cells[2],
                                     floor_size |-> bounds.size[3] \div fl]],
         bounds |-> [center |-> bounds.center, size |-> bounds.size],
         wrap   |-> wrap]

\* HashGrid::new: one empty grid per floor, at least one floor
HashGridNew(cells, floors, bounds, wrap) ==
    LET fl == Max(floors, 1)
    IN  [grids  |-> [f \in 1..fl |-> <<>>],
         params |-> [cell_per_axis |-> CellsPerAxisFrom(cells, fl),
                     cell_sizes |-> [x_size |-> bounds.size[1] \div cells[1],
                                     y_size |-> bounds.size[2] \div cells[2],
                                     floor_size |-> Max(bounds.size[3] \div fl, 1)]],
         bounds |-> [center |-> bounds.center, size |-> bounds.size],
         wrap   |-> wrap]

\* (n / d).floor() converted to an unsigned integer and unwrapped: the
\* conversion yields None, and unwrap aborts, for a negative quotient and
\* for the infinite or NaN quotient of a zero divisor
FloorToUnsigned(n, d) ==
    IF d = 0 THEN [fatal |-> TRUE, value |-> 0]
    ELSE LET q == n \div d
         IN  IF q < 0 THEN [fatal |-> TRUE, value |-> 0]
             ELSE [fatal |-> FALSE, value |-> q]

\* HashGrid::get_cell_coordinates: [fatal, cx, cy, floor]
GetCellCoordinates(g, x, y, z) ==
    LET cx == FloorToUnsigned(x + BoundaryMax(g.bounds)[1], g.params.cell_sizes.x_size)
        cy == FloorToUnsigned(y + BoundaryMax(g.bounds)[2], g.params.cell_sizes.y_size)
        floor == FloorToUnsigned(z, g.params.cell_sizes.floor_size)
    IN  [fatal |-> cx.fatal \/ cy.fatal \/ floor.fatal,
         cx |-> cx.value, cy |-> cy.value, floor |-> floor.value]

\* mutant of Key: the second coordinate is not added to the triangle number
KeyNoOffset(k1, k2) == ((k1 + k2) * (k1 + k2 + 1)) \div 2

\* half of the u32 range: a u32 is kept as two 16-bit limbs where a product
\* is formed
Limb == Pow2(16)

\* a * b for operands below 2^18, exact, as hi * 2^16 + lo
WideMul(a, b) ==
    LET a1 == a \div 256
        a0 == a % 256
        b1 == b \div 256
        b0 == b % 256
        low == (a1 * b0 + a0 * b1) * 256 + a0 * b0
    IN  [hi |-> a1 * b1 + low \div Limb, lo |-> low % Limb]

\* the product (k1 + k2) * (k1 + k2 + 1) of HashGrid::key does not fit a u32
KeyOverflows(k1, k2) == WideMul(k1 + k2, k1 + k2 + 1).hi >= Limb

\* HashGrid::key: the Cantor pairing of the cell coordinates in u32
\* arithmetic, the product reduced modulo 2^32 as a build without overflow
\* checks computes it (a build with overflow checks panics when KeyOverflows).
\* The sums k1 + k2 and ... + k2 of the model's coordinates fit a u32.
Key(k1, k2) ==
    LET p == WideMul(k1 + k2, k1 + k2 + 1)
        hi == p.hi % Limb
    IN  (hi \div 2) * Limb + ((hi % 2) * Limb + p.lo) \div 2 + k2

\* the wrap branch of insert/update: each axis clamped with min(max).max(min)
Clamped(b, position) ==
    [i \in 1..3 |-> Max(Min(position[i], BoundaryMax(b)[i]), BoundaryMin(b)[i])]

\* mutant of Place: an occupied cell is replaced by the new entity
PlaceOverwrites(g, entity) ==
    LET inside == IsInside(g.bounds, entity.position)
        coodrinates == IF inside THEN entity.position ELSE Clamped(g.bounds, entity.position)
        c == GetCellCoordinates(g, coodrinates[1], coodrinates[2], coodrinates[3])
        hashindex == Key(c.cx, c.cy)
    IN  IF ~inside /\ ~g.wrap THEN [res |-> "skipped", grid |-> g, at |-> entity.position]
        ELSE IF c.fatal \/ c.floor >= Len(g.grids)
            THEN [res |-> "panic", grid |-> g, at |-> coodrinates]
        ELSE [res |-> "stored", at |-> coodrinates,
              grid |-> [g EXCEPT !.grids[c.floor + 1] =
                           [k \in DOMAIN @ \cup {hashindex} |-> <<entity.id>>]]]

\* the body insert and update run for one entity: [res, grid, at] where res
\* is "skipped" (outside, wrap disabled), "panic" (an unwrap or the index
\* grids[floor] aborted) or "stored", and at is the position that was hashed
Place(g, entity) ==
    LET inside == IsInside(g.bounds, entity.position)
        coodrinates == IF inside THEN entity.position ELSE Clamped(g.bounds, entity.position)
        c == GetCellCoordinates(g, coodrinates[1], coodrinates[2], coodrinates[3])
        hashindex == Key(c.cx, c.cy)
    IN  IF ~inside /\ ~g.wrap THEN [res |-> "skipped", grid |-> g, at |-> entity.position]
        ELSE IF c.fatal \/ c.floor >= Len(g.grids)
            THEN [res |-> "panic", grid |-> g, at |-> coodrinates]
        ELSE [res |-> "stored", at |-> coodrinates,
              grid |-> [g EXCEPT !.grids[c.floor + 1] =
                           [k \in DOMAIN @ \cup {hashindex} |->
                               IF k = hashindex
                               THEN (IF k \in DOMAIN @ THEN Append(@[k], entity.id)
                                     ELSE <<entity.id>>)
                               ELSE @[k]]]]

\* what one entity handed to insert/update leaves in the history
Offered(entity, r) ==
    [id |-> entity.id, position |-> entity.position, at |-> r.at, res |-> r.res]

RECURSIVE UpdateFrom(_, _, _)
\* HashGrid::update: the entities of data in order, ids counted from id;
\* an abort ends the loop with the earlier entities stored: [fatal, grid, log]
UpdateFrom(g, data, id) ==
    IF data = <<>> THEN [fatal |-> FALSE, grid |-> g, log |-> <<>>]
    ELSE LET entity == [id |-> id, position |-> Head(data)]
             r == Place(g, entity)
         IN  IF r.res = "panic"
             THEN [fatal |-> TRUE, grid |-> r.grid, log |-> <<Offered(entity, r)>>]
             ELSE LET rest == UpdateFrom(r.grid, Tail(data), id + 1)
                  IN  [fatal |-> rest.fatal, grid |-> rest.grid,
                       log |-> <<Offered(entity, r)>> \o rest.log]

\* HashGrid::query: [fatal, cells, data]; the Search and Neighbour arms
\* have no statements
Query(g, query) ==
    IF query.ty = "Single"
    THEN LET c == GetCellCoordinates(g, query.coordinates[1], query.coordinates[2],
                                     query.coordinates[3])
             hashindex == Key(c.cx, c.cy)
         IN  IF c.fatal \/ c.floor >= Len(g.grids)
             THEN [fatal |-> TRUE, cells |-> <<>>, data |-> <<>>]
             ELSE IF hashindex \in DOMAIN g.grids[c.floor + 1]
                 THEN [fatal |-> FALSE, cells |-> <<hashindex>>,
                       data |-> g.grids[c.floor + 1][hashindex]]
                 ELSE [fatal |-> FALSE, cells |-> <<>>, data |-> <<>>]
    ELSE [fatal |-> FALSE, cells |-> <<>>, data |-> <<>>]

\* the grids that are constructed: the documentation's 2x2 grid, the two
\* grids of grid_2d_3d_initialization, a two-floor 2x2 grid, and 2x2 grids
\* centred away from the origin on either side
GridConfigs ==
    { [cells |-> <<2, 2>>, floors |-> 0, center |-> <<0, 0, 0>>, size |-> <<100, 100, 0>>],
      [cells |-> <<100, 100>>, floors |-> 0, center |-> <<0, 0, 0>>, size |-> <<1000, 1000, 0>>],
      [cells |-> <<100, 100>>, floors |-> 2, center |-> <<0, 0, 0>>, size |-> <<1000, 1000, 1000>>],
      [cells |-> <<2, 2>>, floors |-> 2, center |-> <<0, 0, 0>>, size |-> <<100, 100, 100>>],
      [cells |-> <<2, 2>>, floors |-> 1, center |-> <<10, 10, 0>>, size |-> <<20, 20, 0>>],
      [cells |-> <<2, 2>>, floors |-> 1, center |-> <<-10, -10, 0>>, size |-> <<20, 20, 0>>] }

\* entity positions: the documentation's objects, cell edges, both corners,
\* positions above the maximum and below the minimum, and a negative height
EntityPositions ==
    { <<22, 30, 0>>, <<15, 45, 0>>, <<0, 0, 0>>, <<5, 15, 0>>, <<50, 50, 0>>,
      <<-50, -50, 0>>, <<55, 55, 0>>, <<-55, -55, 0>>, <<60, 0, 0>>, <<10, 10, -10>> }

\* the slices handed to update
UpdateSlices == {<<p, q>> : p \in {<<22, 30, 0>>, <<-55, -55, 0>>}, q \in EntityPositions}

\* query coordinates: the documentation's query and stored positions
GridQueryPoints == {<<25, 25, 0>>, <<10, 10, 0>>} \cup EntityPositions

\* the points of point_boundary_validation and points that differ from the
\* boundary on one axis only
BoundaryPoints ==
    { <<55, 55, 55>>, <<-55, -55, -55>>, <<50, 50, 50>>, <<-50, -50, -50>>,
      <<-55, 0, 0>>, <<0, 55, 0>>, <<0, 0, -55>>, <<0, 0, 0>> } \cup EntityPositions

\* the coordinate pairs handed to key directly
KeyInputs == (0..MaxCell) \X (0..MaxCell)

\* a point between boundary_min and boundary_max, both inclusive, on every axis
Within(b, point) ==
    \A i \in 1..3 : BoundaryMin(b)[i] <= point[i] /\ point[i] <= BoundaryMax(b)[i]

\* the buckets <<floor, key>> of the grid that hold a reference to id
BucketsHolding(g, id) ==
    { fk \in UNION {{<<f, k>> : k \in DOMAIN g.grids[f]} : f \in 1..Len(g.grids)} :
        \E n \in 1..Len(g.grids[fk[1]][fk[2]]) : g.grids[fk[1]][fk[2]][n] = id }

\* the entities the last insert or update step was handed
Handed(before, after) == {after[i] : i \in (Len(before) + 1)..Len(after)}

\* a query at coordinates q
QueryAt(q, ty, radius) == [coordinates |-> q, ty |-> ty, radius |-> radius]

\* let mut hashgrid = HashGrid::new(cells, floors, &bounds, wrap)
GridNew ==
    /\ gpc = "new"
    /\ \E cfg \in GridConfigs, wrap \in BOOLEAN :
          /\ grid' = HashGridNew(cfg.cells, cfg.floors,
                                 [center |-> cfg.center, size |-> cfg.size], wrap)
          /\ gret' = [op |-> "new", cells |-> cfg.cells, floors |-> cfg.floors,
                      center |-> cfg.center, size |-> cfg.size, wrap |-> wrap]
    /\ gpc' = "ready"
    /\ UNCHANGED <<offered, quadVars, codecVars, keyVars, geoVars, blockVars, wideVars>>

\* hashgrid.insert(&entity)
GridInsert ==
    /\ gpc = "ready"
    /\ Len(offered) < MaxOffered
    /\ \E position \in EntityPositions :
          LET entity == [id |-> Len(offered), position |-> position]
              r == Place(grid, entity)
          IN  /\ grid' = r.grid
              /\ gpc' = IF r.res = "panic" THEN "panicked" ELSE "ready"
              /\ gret' = [op |-> "insert", res |-> r.res]
              /\ offered' = Append(offered, Offered(entity, r))
    /\ UNCHANGED <<quadVars, codecVars, keyVars, geoVars, blockVars, wideVars>>

\* hashgrid.update(&data)
GridUpdate ==
    /\ gpc = "ready"
    /\ \E data \in UpdateSlices :
          /\ Len(offered) + Len(data) <= MaxOffered
          /\ LET r == UpdateFrom(grid, data, Len(offered))
             IN  /\ grid' = r.grid
                 /\ gpc' = IF r.fatal THEN "panicked" ELSE "ready"
                 /\ gret' = [op |-> "update", res |-> IF r.fatal THEN "panic" ELSE "done"]
                 /\ offered' = offered \o r.log
    /\ UNCHANGED <<quadVars, codecVars, keyVars, geoVars, blockVars, wideVars>>

\* let index = hashgrid.key(k1, k2), keeping the evaluation before it
KeyApply ==
    /\ \E k \in KeyInputs :
          kret' = (IF Len(kret) = 2 THEN Tail(kret) ELSE kret)
                      \o <<[k1 |-> k[1], k2 |-> k[2], key |-> Key(k[1], k[2])]>>
    /\ UNCHANGED <<quadVars, codecVars, gridVars, geoVars, blockVars, wideVars>>

(***************************************************************************)
(* A wide grid: more than 65536 cell columns of width one and 512 rows of  *)
(* height one, centred at the origin.  A position is hashed the way insert *)
(* and query do it, get_cell_coordinates followed by key.  The crate does  *)
(* not fix the build profile: with overflow checks an overflowing product  *)
(* panics, without them it wraps.                                          *)
(***************************************************************************)
WideCells == <<Limb + 2 * MaxOver, 512>>

WideGrid ==
    HashGridNew(WideCells, 1,
                [center |-> <<0, 0, 0>>, size |-> <<WideCells[1], WideCells[2], 0>>],
                FALSE)

\* the cell columns and rows the hashed positions lie in
WideColumns == {127} \cup ((Limb - 7)..(Limb + MaxOver))
WideRows == {0, 1, 2, 3, 128}

WidePositions ==
    {<<cx - BoundaryMax(WideGrid.bounds)[1], cy - BoundaryMax(WideGrid.bounds)[2], 0>> :
        cx \in WideColumns, cy \in WideRows}

OverflowChecks == {TRUE, FALSE}

\* key(cx, cy) for the cell of a position: [cx, cy, out, key]
HashOf(g, position, checks) ==
    LET c == GetCellCoordinates(g, position[1], position[2], position[3])
    IN  IF c.fatal \/ (checks /\ KeyOverflows(c.cx, c.cy))
        THEN [cx |-> c.cx, cy |-> c.cy, out |-> "panic", key |-> 0,
              overflow |-> ~c.fatal]
        ELSE [cx |-> c.cx, cy |-> c.cy, out |-> "key", key |-> Key(c.cx, c.cy),
              overflow |-> KeyOverflows(c.cx, c.cy)]

\* one position of the wide grid hashed, keeping the evaluation before it
WideKeyApply ==
    /\ \E position \in WidePositions, checks \in OverflowChecks :
          wret' = (IF Len(wret) = 2 THEN Tail(wret) ELSE wret)
                      \o <<HashOf(WideGrid, position, checks)>>
    /\ UNCHANGED <<quadVars, codecVars, gridVars, keyVars, geoVars, blockVars>>

(***************************************************************************)
(* GeoTypes (src/src/lib.rs).  Sizes are even integers, so size * 0.5 and  *)
(* every sum, difference and square the functions form are exact.  A call  *)
(* returns "true" or "false", or ends in "panic".                          *)
(***************************************************************************)
\* GeoTypes::point
GeoPoint(x, y) == [kind |-> "Point", x |-> x, y |-> y]

\* GeoTypes::rect
GeoRect(center, size) == [kind |-> "Rect", center |-> center, size |-> size]

\* GeoTypes::radius
GeoRadius(radius, center) == [kind |-> "Radius", radius |-> radius, center |-> center]

\* GeoTypes::rect_min_max: <<min, max>>
RectMinMax(center, size) ==
    LET hsx == size[1] \div 2
        hsy == size[2] \div 2
    IN  <<(<<center[1] - hsx, center[2] - hsy>>), (<<center[1] + hsx, center[2] + hsy>>)>>

\* GeoTypes::disctance_squared
DisctanceSquared(p1, p2) ==
    LET dx == p1[1] - p2[1]
        dy == p1[2] - p2[2]
    IN  dx * dx + dy * dy

\* GeoTypes::rect_corners: top-right, top-left, bottom-right, bottom-left
RectCorners(center, size) ==
    LET mm == RectMinMax(center, size)
    IN  <<mm[2], (<<mm[1][1], mm[2][2]>>), (<<mm[2][1], mm[1][2]>>), mm[1]>>

\* a bool as the outcome of a call
Returned(b) == IF b THEN "true" ELSE "false"

\* the closest coordinate of the interval [lo, hi] to c
Closest(c, lo, hi) == IF c < lo THEN lo ELSE IF c > hi THEN hi ELSE c

\* mutant of GeoIntersects: a pair with a Point is answered with false
GeoIntersectsPointIsFalse(self, other) ==
    IF self.kind = "Rect" /\ other.kind = "Rect"
    THEN LET m1 == RectMinMax(self.center, self.size)
             m2 == RectMinMax(other.center, other.size)
         IN  Returned(/\ m1[1][1] < m2[2][1] /\ m1[2][1] > m2[1][1]
                      /\ m1[1][2] < m2[2][2] /\ m1[2][2] > m2[1][2])
    ELSE IF self.kind = "Radius" /\ other.kind = "Radius"
    THEN LET sum == self.radius + other.radius
         IN  Returned(DisctanceSquared(self.center, other.center) <= sum * sum)
    ELSE IF {self.kind, other.kind} = {"Rect", "Radius"}
    THEN LET b == IF self.kind = "Rect" THEN self ELSE other
             c == IF self.kind = "Rect" THEN other ELSE self
             mm == RectMinMax(b.center, b.size)
             cx == Closest(c.center[1], mm[1][1], mm[2][1])
             cy == Closest(c.center[2], mm[1][2], mm[2][2])
         IN  Returned(DisctanceSquared(<<cx, cy>>, c.center) <= c.radius * c.radius)
    ELSE "false"

\* GeoTypes::intersects
GeoIntersects(self, other) ==
    IF self.kind = "Rect" /\ other.kind = "Rect"
    THEN LET m1 == RectMinMax(self.center, self.size)
             m2 == RectMinMax(other.center, other.size)
         IN  Returned(/\ m1[1][1] < m2[2][1] /\ m1[2][1] > m2[1][1]
                      /\ m1[1][2] < m2[2][2] /\ m1[2][2] > m2[1][2])
    ELSE IF self.kind = "Radius" /\ other.kind = "Radius"
    THEN LET sum == self.radius + other.radius
         IN  Returned(DisctanceSquared(self.center, other.center) <= sum * sum)
    ELSE IF {self.kind, other.kind} = {"Rect", "Radius"}
    THEN LET b == IF self.kind = "Rect" THEN self ELSE other
             c == IF self.kind = "Rect" THEN other ELSE self
             mm == RectMinMax(b.center, b.size)
             cx == Closest(c.center[1], mm[1][1], mm[2][1])
             cy == Closest(c.center[2], mm[1][2], mm[2][2])
         IN  Returned(DisctanceSquared(<<cx, cy>>, c.center) <= c.radius * c.radius)
    ELSE "panic"

\* GeoTypes::contains
GeoContains(self, other) ==
    IF self.kind = "Rect" /\ other.kind = "Point"
    THEN LET mm == RectMinMax(self.center, self.size)
         IN  Returned(/\ other.x >= mm[1][1] /\ other.y >= mm[1][2]
                      /\ other.x <= mm[2][1] /\ other.y <= mm[2][2])
    ELSE IF self.kind = "Radius" /\ other.kind = "Point"
    THEN Returned(DisctanceSquared(self.center, <<other.x, other.y>>)
                      <= self.radius * self.radius)
    ELSE IF self.kind = "Radius" /\ other.kind = "Radius"
    THEN Returned(/\ DisctanceSquared(self.center, other.center)
                        <= (self.radius - other.radius) * (self.radius - other.radius)
                  /\ self.radius > other.radius)
    ELSE IF self.kind = "Rect" /\ other.kind = "Rect"
    THEN LET m1 == RectMinMax(self.center, self.size)
             m2 == RectMinMax(other.center, other.size)
         IN  Returned(/\ m1[1][1] <= m2[1][1] /\ m1[1][2] <= m2[1][2]
                      /\ m1[2][1] >= m2[2][1] /\ m1[2][2] >= m2[2][2])
    ELSE IF self.kind = "Rect" /\ other.kind = "Radius"
    THEN LET mm == RectMinMax(self.center, self.size)
             r == other.radius
             c == other.center
         IN  Returned(/\ c[1] - r >= mm[1][1] /\ c[1] + r <= mm[2][1]
                      /\ c[2] - r >= mm[1][2] /\ c[2] + r <= mm[2][2])
    ELSE IF self.kind = "Radius" /\ other.kind = "Rect"
    THEN LET b_corners == RectCorners(other.center, other.size)
             r == self.radius
         IN  Returned(\A k \in 1..4 : DisctanceSquared(self.center, b_corners[k]) <= r * r)
    ELSE "panic"

\* centres of the shapes handed to contains and intersects
GeoCenters == {<<0, 0>>, <<2, 0>>}

\* the shapes: points, rectangles of every size down to zero width and
\* height, circles of every radius down to zero
GeoShapes ==
    {GeoPoint(c[1], c[2]) : c \in GeoCenters}
        \cup {GeoRect(c, <<2 * hx, 2 * hy>>) :
                 c \in GeoCenters, hx \in 0..MaxHalf, hy \in 0..MaxHalf}
        \cup {GeoRadius(r, c) : r \in 0..MaxHalf, c \in GeoCenters}

\* let out = a.contains(b)
GeoContainsCall ==
    /\ geo.op = "none"
    /\ \E a \in GeoShapes, b \in GeoShapes :
          geo' = [op |-> "contains", a |-> a, b |-> b, out |-> GeoContains(a, b)]
    /\ UNCHANGED <<quadVars, codecVars, gridVars, keyVars, blockVars, wideVars>>

\* let out = a.intersects(b), as the first call or on the operands contains
\* has just answered for
GeoIntersectsCall ==
    /\ \/ geo.op = "none"
       \/ geo.op = "contains" /\ geo.out # "panic"
    /\ \E a \in GeoShapes, b \in GeoShapes :
          /\ geo.op = "contains" => a = geo.a /\ b = geo.b
          /\ geo' = [op |-> "intersects", a |-> a, b |-> b, out |-> GeoIntersects(a, b),
                     contained |-> IF geo.op = "contains" THEN geo.out ELSE "none"]
    /\ UNCHANGED <<quadVars, codecVars, gridVars, keyVars, blockVars, wideVars>>

(***************************************************************************)
(* One Base4 block used on its own, as tests/base4.rs uses it: a slice is  *)
(* pushed onto the empty block with push_all and read back with pop_all.   *)
(* The caller chooses the first two symbols and the last one of the slice  *)
(* freely; the others follow the fixed pattern.                            *)
(***************************************************************************)
BlockLengths == {0, 1, 12, BlockSymbols - 1, BlockSymbols, MaxBlockPush}

BlockSlice(n, first, second, last) ==
    [k \in 1..n |->
        IF k = 1 THEN first
        ELSE IF k = 2 THEN second
        ELSE IF k = n THEN last
        ELSE PatternSymbol(k - 1)]

\* the slices of symbols, and one slice whose second integer is no symbol
BlockSlices ==
    {BlockSlice(n, first, second, last) :
        n \in BlockLengths, first \in 0..3, second \in 0..3, last \in 0..3}
    \cup {BlockSlice(12, 1, 4, 2)}

BlockPushAll ==
    /\ bret.op \in {"new", "pop_all"}
    /\ \E ints \in BlockSlices :
          LET r == Base4PushAll(block, ints)
          IN  /\ block' = r.block
              /\ bret' = IF r.fatal THEN Panicked("push_all")
                         ELSE [op |-> "push_all", ints |-> ints]
    /\ UNCHANGED <<quadVars, codecVars, gridVars, keyVars, geoVars, wideVars>>

BlockPopAll ==
    /\ bret.op = "push_all"
    /\ block' = Base4AfterPops(block, block.size)
    /\ bret' = [op |-> "pop_all", ints |-> bret.ints, out |-> Base4PopAll(block)]
    /\ UNCHANGED <<quadVars, codecVars, gridVars, keyVars, geoVars, wideVars>>

BlockNext == BlockPushAll \/ BlockPopAll

GeoNext == GeoContainsCall \/ GeoIntersectsCall

GridNext == GridNew \/ GridInsert \/ GridUpdate

QuadNext == New \/ Insert \/ Clear

CodecNext ==
    CodecPush \/ CodecPushAll \/ CodecPop \/ CodecPeekAt \/ CodecPopAll

Init ==
    /\ pc = "new"
    /\ nodes = <<>>
    /\ map = <<>>
    /\ result = [op |-> "none"]
    /\ codec = Base4IntNew
    /\ shadow = <<>>
    /\ cret = [op |-> "new"]
    /\ cpc = "running"
    /\ built = <<>>
    /\ inserted = <<>>
    /\ grid = <<>>
    /\ gpc = "new"
    /\ gret = [op |-> "none"]
    /\ offered = <<>>
    /\ kret = <<>>
    /\ geo = [op |-> "none"]
    /\ block = Base4New
    /\ bret = [op |-> "new"]
    /\ wret = <<>>

CodecSpec == Init /\ [][CodecNext]_vars

QuadSpec == Init /\ [][QuadNext]_vars

GridSpec == Init /\ [][GridNext]_vars

KeySpec == Init /\ [][KeyApply]_vars

GeoSpec == Init /\ [][GeoNext]_vars

BlockSpec == Init /\ [][BlockNext]_vars

WideKeySpec == Init /\ [][WideKeyApply]_vars

(***************************************************************************)
(* Properties.                                                             *)
(***************************************************************************)
\* an insert call returned, or aborted, in this step
IsInsertStep == pc = "ready" /\ result'.op = "insert"

StoredAt(point, pred) ==
    {id \in DOMAIN map : ContainsPoint(map[id].bounds, point) /\ Holds(pred, id)}

StoredIn(bounds, pred) ==
    {id \in DOMAIN map : Intersects(map[id].bounds, bounds) /\ Holds(pred, id)}

\* an Option<Entities> holds exactly the ids of want, each once; None when empty
Exactly(option, want) ==
    IF want = {} THEN ~option.some
    ELSE /\ option.some
         /\ Range(option.entities) = want
         /\ Len(option.entities) = Cardinality(want)

\* C1: after any sequence of successful inserts of entities with distinct ids,
\* query_point_and_filter(p, pred) returns exactly, each once, the stored
\* entities whose bounding box contains p (edges inclusive) and that satisfy
\* pred, in whichever node they are stored, and None exactly when there are
\* none; query_point(p) is the same with pred always true.
C1_PointQueryExact ==
    pc = "ready" =>
        \A point \in QueryPoints :
            /\ \A pred \in Predicates :
                  Exactly(QueryPointAndFilter(nodes, map, point, pred),
                          StoredAt(point, pred))
            /\ Exactly(QueryPoint(nodes, map, point),
                       StoredAt(point, [kind |-> "all"]))

\* an entity kept at a node that has quadrants is returned by a point query
\* together with an entity stored elsewhere, and a filter on its id singles it out
C1_Witness ==
    /\ pc = "ready"
    /\ \E p \in DOMAIN nodes, point \in QueryPoints :
          /\ ~nodes[p].leaf
          /\ nodes[p].items # <<>>
          /\ LET got == QueryPoint(nodes, map, point)
                 one == QueryPointAndFilter(nodes, map, point,
                            [kind |-> "id", id |-> nodes[p].items[1]])
             IN  /\ got.some
                 /\ nodes[p].items[1] \in Range(got.entities)
                 /\ Len(got.entities) >= 2
                 /\ nodes[p].items[1] \in {1, 2} => one.some /\ Len(one.entities) = 1

\* C2: after any sequence of successful inserts of entities with distinct ids,
\* query_bounds_and_filter(center, size, pred) returns exactly, each once, the
\* stored entities whose bounding box intersects the search rectangle
\* [center - size/2, center + size/2] (Bounds2D::intersects) and that satisfy
\* pred, in whichever node they are stored, and None exactly when there are none.
C2_BoundsQueryExact ==
    pc = "ready" =>
        \A rect \in QueryRects :
            /\ \A pred \in Predicates :
                  Exactly(QueryBoundsAndFilter(nodes, map, rect[1], rect[2], pred),
                          StoredIn(FromCenterSize(rect[1], rect[2]), pred))
            /\ Exactly(QueryBounds(nodes, map, rect[1], rect[2]),
                       StoredIn(FromCenterSize(rect[1], rect[2]), [kind |-> "all"]))

\* a region query returns entities held by two different quadrants of one node
C2_Witness ==
    /\ pc = "ready"
    /\ \E rect \in QueryRects, p \in DOMAIN nodes, j \in Quads, k \in Quads :
          /\ ~nodes[p].leaf
          /\ j # k
          /\ LET got == QueryBounds(nodes, map, rect[1], rect[2])
             IN  /\ got.some
                 /\ Range(nodes[Append(p, j)].items) \cap Range(got.entities) # {}
                 /\ Range(nodes[Append(p, k)].items) \cap Range(got.entities) # {}

\* C3: clear() called after N successful inserts of entities with distinct ids
\* returns exactly N entities, and their ids are the ids inserted.
C3_ClearReturnsAll ==
    [][(pc = "ready" /\ result'.op = "clear")
          => /\ {e.id : e \in result'.out} = Range(inserted)
             /\ Cardinality(result'.out) = Len(inserted)
             /\ \A e \in result'.out : e.bounds = map[e.id].bounds]_vars

\* clear() has returned three entities
C3_Witness ==
    /\ result.op = "clear"
    /\ Cardinality(result.out) >= 3

\* C4: an insert of an entity whose bounds the root boundary contains returns
\* Ok(true), for every capacity and every combination of stored entities.
C4_InsertAlwaysPlaces ==
    (result.op = "insert" /\ Contains(built[Root].boundary, result.bounds))
        => (result.res = "Ok" /\ result.ret)

\* C5: an insert of an entity whose bounds the root boundary does not contain
\* returns Err(OutOfBounds) and leaves the entity map and the nodes as they were.
C5_OutOfBoundsChangesNothing ==
    [][(IsInsertStep /\ ~Contains(nodes[Root].boundary, result'.bounds))
          => /\ result'.res = "OutOfBounds"
             /\ nodes' = nodes
             /\ map' = map]_vars

\* an insert was refused on a tree that has subdivided
C5_Witness ==
    /\ result.op = "insert"
    /\ result.res = "OutOfBounds"
    /\ \E p \in DOMAIN nodes : ~nodes[p].leaf
    /\ DOMAIN map # {}

\* C6: QuadTree::new returns Err(InvalidCapacity) when capacity is 0,
\* Err(InvalidBounds) when min.x >= max.x or min.y >= max.y, and Ok otherwise.
C6_NewValidatesBothAxes ==
    result.op = "new" =>
        result.res = IF result.capacity = 0 THEN "InvalidCapacity"
                     ELSE IF \/ result.min[1] >= result.max[1]
                             \/ result.min[2] >= result.max[2]
                          THEN "InvalidBounds"
                     ELSE "Ok"

\* C7 as stated: an insert whose entity is kept as an overflow item never
\* increases levels().
C7_OverflowNeverGrows ==
    [][IsInsertStep
          => (Levels(nodes') > Levels(nodes) => result'.how # "kept")]_vars

\* the nodes that have quadrants
Internal(ns) == {p \in DOMAIN ns : ~ns[p].leaf}

\* C7, amended: across one insert levels() never shrinks, and it grows only
\* when the call has subdivided at least one leaf; every leaf it subdivides
\* held exactly `capacity` items when one more id reached it, and this happens
\* whether the inserted entity then moved into a quadrant or was kept as an
\* overflow item.
C7_LevelsGrowOnlyBySplit ==
    [][(IsInsertStep /\ pc' = "ready")
          => /\ Levels(nodes') >= Levels(nodes)
             /\ Levels(nodes') > Levels(nodes) => result'.splits # <<>>
             /\ {sp.at : sp \in Range(result'.splits)}
                    = Internal(nodes') \ Internal(nodes)
             /\ \A sp \in Range(result'.splits) :
                   /\ sp.held = sp.capacity
                   /\ sp.at \in DOMAIN nodes => nodes[sp.at].leaf]_vars

\* an insert kept its entity as an overflow item and levels() grew
C7_Witness ==
    /\ result.op = "insert"
    /\ result.how = "kept"
    /\ result.levels_after > result.levels_before

\* C8: after clear() the tree is the tree QuadTree::new returned: the entity
\* map is empty, the root is a leaf at depth 0 without items and with the same
\* boundary and capacity, levels() is 1 and every query returns None.
C8_ClearIsFresh ==
    result.op = "clear" =>
        /\ nodes = built
        /\ map = EmptyMap
        /\ DOMAIN nodes = {Root}
        /\ nodes[Root].leaf /\ nodes[Root].depth = 0 /\ nodes[Root].items = <<>>
        /\ Levels(nodes) = 1
        /\ \A point \in QueryPoints : ~QueryPoint(nodes, map, point).some
        /\ \A rect \in QueryRects : ~QueryBounds(nodes, map, rect[1], rect[2]).some

\* clear() has emptied a tree that held entities
C8_Witness ==
    /\ result.op = "clear"
    /\ Cardinality(result.out) >= 2
    /\ nodes = built

\* C9: push_all of a sequence onto an empty Base4Int followed by pop_all
\* returns the sequence in push order and leaves no symbol and no block.
C9_RoundTrip ==
    [][(cret.op = "push_all" /\ cret.onto = 0 /\ cret'.op = "pop_all")
          => /\ Len(cret'.out) = cret.len
             /\ cret'.out = shadow
             /\ \E q \in {0, 3} : cret'.out = Slice(0, cret.len, q)
             /\ TotalLen(codec') = 0
             /\ TotalBlocks(codec') = 0]_vars

\* 129 symbols, pushed at once onto an empty codec, have been popped at once
C9_Witness ==
    /\ cret.op = "pop_all"
    /\ cret.after = "push_all"
    /\ cret.onto = 0
    /\ Len(cret.out) = 2 * BlockSymbols + 1

\* C10: after any interleaving of pushes and pops total_len() is the number of
\* symbols pushed and not yet popped, peek_at(i) is the i-th of them counted
\* from the oldest, and pop returns the newest of them.
C10_RefinesStack ==
    [][/\ TotalLen(codec') = Len(shadow')
       /\ \A i \in 0..(Len(shadow') - 1) : IntPeekAt(codec', i) = shadow'[i + 1]
       /\ cret'.op = "pop" => /\ cret'.out = Last(shadow)
                              /\ shadow' = Front(shadow)]_vars

\* a pop has left more than one block of symbols
C10_Witness ==
    /\ cret.op = "pop"
    /\ Len(shadow) > BlockSymbols
    /\ TotalBlocks(codec) = 2

\* C11: after any sequence of pushes and pops every block except the newest
\* holds exactly 64 symbols, the newest block holds between 1 and 64 symbols,
\* and so total_blocks() = ceil(total_len() / 64).
C11_BlockAccounting ==
    /\ \A i \in 1..(Len(codec) - 1) : codec[i].size = BlockSymbols
    /\ codec # <<>> => Last(codec).size \in 1..BlockSymbols
    /\ TotalBlocks(codec) = (TotalLen(codec) + BlockSymbols - 1) \div BlockSymbols

\* 128 symbols in 2 blocks, left by the pop that followed the 129th push
C11_Witness ==
    /\ cret.op = "pop"
    /\ TotalLen(codec) = 2 * BlockSymbols
    /\ TotalBlocks(codec) = 2
    /\ Len(shadow) = 2 * BlockSymbols

\* C12: push of a value greater than 3, pop on an empty codec and peek_at of
\* an index >= total_len() panic and never return a value; an operation that
\* panicked, a rejected push in particular, allocates no block and leaves the
\* stored symbols and total_len() as they were.
C12_PreconditionsAreFatal ==
    [][cpc = "running"
          => /\ \A bad \in BadSymbols :
                   Push(codec, bad) = [fatal |-> TRUE, codec |-> codec]
             /\ codec = <<>> => Pop(codec).fatal
             /\ \A index \in TotalLen(codec)..(TotalLen(codec) + 2) :
                   PeekAt(codec, index).fatal
             /\ (cpc' = "panicked") = (cret'.op = "panic")
             /\ cpc' = "panicked"
                   => /\ codec' = codec
                      /\ shadow' = shadow
                      /\ TotalBlocks(codec') = TotalBlocks(codec)
                      /\ TotalLen(codec') = TotalLen(codec)
             /\ cret'.op = "push" => Last(shadow') \in 0..3
             /\ cret'.op = "pop" => codec # <<>>
             /\ cret'.op = "peek_at" => cret'.index < TotalLen(codec)]_vars

\* a push was rejected while the newest block was full
C12_Witness ==
    /\ cpc = "panicked"
    /\ cret.in = "push"
    /\ TotalLen(codec) = BlockSymbols
    /\ TotalBlocks(codec) = 1

\* C13: key(k1, k2) = ((k1+k2)*(k1+k2+1))/2 + k2 is injective on the pairs
\* below the bound: two evaluations that return the same key were given the
\* same pair of cell coordinates.
C13_KeyInjective ==
    \A i \in 1..Len(kret) : \A j \in 1..Len(kret) :
        kret[i].key = kret[j].key => kret[i].k1 = kret[j].k1 /\ kret[i].k2 = kret[j].k2

\* two different cells on the same anti-diagonal, hashed to different keys
C13_Witness ==
    /\ Len(kret) = 2
    /\ kret[1].k1 + kret[1].k2 = kret[2].k1 + kret[2].k2
    /\ kret[1].k1 = MaxCell /\ kret[2].k2 = MaxCell
    /\ kret[1].key # kret[2].key

\* C14: insert and update never abort; with wrap disabled an entity whose
\* position is outside the bounding volume on any axis, above the maximum or
\* below the minimum, is skipped and no bucket of any floor changes.
C14_NeverAbortsSkipsOutside ==
    [][gpc = "ready" /\ offered' # offered
          => /\ gpc' = "ready"
             /\ \A e \in Handed(offered, offered') :
                    (~grid.wrap /\ ~Within(grid.bounds, e.position))
                        => e.res = "skipped" /\ BucketsHolding(grid', e.id) = {}
             /\ (~grid.wrap /\ \A e \in Handed(offered, offered') :
                                   ~Within(grid.bounds, e.position))
                    => grid'.grids = grid.grids]_vars

\* C15: with wrap enabled an entity is stored under its position clamped per
\* axis to [boundary_min, boundary_max], and is then held by exactly one
\* bucket, on whichever side of the boundary its position lies.
C15_WrapStoresClamped ==
    [][gpc = "ready" /\ grid.wrap /\ offered' # offered
          => \A e \in Handed(offered, offered') :
                /\ e.res = "stored"
                /\ e.at = Clamped(grid.bounds, e.position)
                /\ Cardinality(BucketsHolding(grid', e.id)) = 1]_vars

\* C16: for a position inside the bounding volume get_cell_coordinates
\* returns the cell measured from the minimum corner of the boundary,
\* whatever its centre, and a floor index that is valid for the grid.
C16_CellsFromMinimumCorner ==
    gpc # "new"
        => \A p \in EntityPositions :
              Within(grid.bounds, p)
                  => LET c == GetCellCoordinates(grid, p[1], p[2], p[3])
                         min == BoundaryMin(grid.bounds)
                     IN  /\ ~c.fatal
                         /\ c.cx = (p[1] - min[1]) \div grid.params.cell_sizes.x_size
                         /\ c.cy = (p[2] - min[2]) \div grid.params.cell_sizes.y_size
                         /\ c.floor \in 0..(grid.params.cell_per_axis.floors - 1)
                         /\ c.floor < Len(grid.grids)

\* the ids of the stored entities whose hashed position lies in cell c, in
\* the order they were handed over
StoredInCell(g, log, c) ==
    LET InCell(e) == /\ e.res = "stored"
                     /\ GetCellCoordinates(g, e.at[1], e.at[2], e.at[3]) = c
        held == SelectSeq(log, InCell)
    IN  [n \in 1..Len(held) |-> held[n].id]

C18_NeighbourhoodReturned ==
    gpc = "ready"
        => \A q \in GridQueryPoints :
              LET own == Query(grid, QueryAt(q, "Single", 0))
              IN  ~own.fatal
                    => \A n \in 1..Len(own.data) :
                          /\ \A radius \in {0, 1} :
                                 \E k \in 1..Len(Query(grid, QueryAt(q, "Neighbour", radius)).data) :
                                     Query(grid, QueryAt(q, "Neighbour", radius)).data[k] = own.data[n]
                          /\ Query(grid, [QueryAt(q, "Search", 1) EXCEPT !.id = own.data[n]]).data
                                 = <<own.data[n]>>

\* C19: new creates max(floors, 1) empty floor grids, cell sizes size.x /
\* cells[0] and size.y / cells[1], floor size max(size.z / max(floors, 1), 1),
\* and a boundary whose corners are centre + size/2 and centre - size/2.
C19_NewParameters ==
    [][gpc = "new" /\ gpc' = "ready"
          => LET a == gret'
                 fl == IF a.floors >= 1 THEN a.floors ELSE 1
                 sizes == grid'.params.cell_sizes
             IN  /\ Len(grid'.grids) = fl
                 /\ \A f \in 1..fl : DOMAIN grid'.grids[f] = {}
                 /\ grid'.params.cell_per_axis = [xcells |-> a.cells[1], ycells |-> a.cells[2], floors |-> fl]
                 /\ sizes.x_size * a.cells[1] = a.size[1]
                 /\ sizes.y_size * a.cells[2] = a.size[2]
                 /\ IF a.size[3] < fl THEN sizes.floor_size = 1
                    ELSE sizes.floor_size * fl = a.size[3]
                 /\ \A i \in 1..3 :
                        /\ 2 * BoundaryMax(grid'.bounds)[i] = 2 * a.center[i] + a.size[i]
                        /\ 2 * BoundaryMin(grid'.bounds)[i] = 2 * a.center[i] - a.size[i]
                 /\ grid'.wrap = a.wrap
                 /\ (a.cells = <<100, 100>> /\ a.floors = 0 /\ a.size = <<1000, 1000, 0>>)
                        => /\ sizes = [x_size |-> 10, y_size |-> 10, floor_size |-> 1]
                           /\ BoundaryMax(grid'.bounds) = <<500, 500, 0>>]_vars

\* the 1000x1000x0 grid of 100x100 cells constructed with floors = 0
C19_Witness ==
    /\ gpc = "ready"
    /\ gret.op = "new" /\ gret.floors = 0 /\ gret.size = <<1000, 1000, 0>>
    /\ Len(grid.grids) = 1
    /\ grid.params.cell_sizes.floor_size = 1

\* C20: is_inside(p) is true exactly when p lies between boundary_min and
\* boundary_max, inclusive, on every axis.
C20_InsideIsWithin ==
    gpc # "new"
        => \A p \in BoundaryPoints : IsInside(grid.bounds, p) = Within(grid.bounds, p)

\* C21: for the four pairs of Rect and Radius operands, whenever
\* a.contains(b) returned true, a.intersects(b) returns true as well.
C21_ContainsImpliesIntersects ==
    (geo.op = "intersects" /\ geo.a.kind # "Point" /\ geo.b.kind # "Point"
        /\ geo.contained = "true")
        => geo.out = "true"

\* C22: contains panics for exactly the pairs whose first operand is a Point
\* and answers for the other six; intersects panics for exactly the pairs
\* with a Point on either side and answers for the other four.
C22_UnsupportedPairsPanic ==
    /\ geo.op = "contains"
          => /\ (geo.out = "panic") = (geo.a.kind = "Point")
             /\ geo.out \in {"true", "false", "panic"}
    /\ geo.op = "intersects"
          => /\ (geo.out = "panic") = (geo.a.kind = "Point" \/ geo.b.kind = "Point")
             /\ geo.out \in {"true", "false", "panic"}

\* intersects panicked on a Rect and a Point, a pair contains had answered
C22_Witness ==
    /\ geo.op = "intersects"
    /\ geo.a.kind = "Rect" /\ geo.b.kind = "Point"
    /\ geo.contained = "true"
    /\ geo.out = "panic"

\* the four quarters of rectangle b around its centre: NE, NW, SE, SW
Quarters(b) ==
    LET center == <<HalfOf(b.min[1] + b.max[1]), HalfOf(b.min[2] + b.max[2])>>
    IN  <<Bounds2DNew(center, b.max),
          Bounds2DNew(<<b.min[1], center[2]>>, <<center[1], b.max[2]>>),
          Bounds2DNew(<<center[1], b.min[2]>>, <<b.max[1], center[2]>>),
          Bounds2DNew(b.min, center)>>

\* a rectangle whose min does not exceed its max on either axis
WellFormed(b) == b.min[1] <= b.max[1] /\ b.min[2] <= b.max[2]

\* the places <<node, index>> of the items lists that hold id
Holders(ns, id) ==
    {pn \in UNION {{<<q, n>> : n \in 1..Len(ns[q].items)} : q \in DOMAIN ns} :
        ns[pn[1]].items[pn[2]] = id}

\* the ids in the items lists of the nodes
HeldIds(ns) == UNION {Range(ns[q].items) : q \in DOMAIN ns}

\* the symbols of a path, first pushed first
PathSymbols(path) == IntPopAll(path)

\* a bounding box with positive width or positive height
PositiveExtent(b) == b.max[1] - b.min[1] > 0 \/ b.max[2] - b.min[2] > 0

\* C23: a node with children has exactly four, one level deeper and with its
\* capacity, whose boundaries are the well-formed quarters of its rectangle
\* around the centre, in the order NE, NW, SE, SW; so an entity inside one
\* quarter is contained in the boundary of the corresponding child.
C23_ChildrenQuarterParent ==
    pc = "ready"
        => \A q \in DOMAIN nodes :
              ~nodes[q].leaf
                  => /\ Cardinality({c \in DOMAIN nodes : c # Root /\ Front(c) = q}) = MAX_QUADS
                     /\ \A k \in Quads :
                            LET child == nodes[Append(q, k)]
                            IN  /\ child.depth = nodes[q].depth + 1
                                /\ child.capacity = nodes[q].capacity
                                /\ WellFormed(child.boundary)
                                /\ child.boundary = Quarters(nodes[q].boundary)[k + 1]
                                /\ \A e \in EntityBounds :
                                       Contains(Quarters(nodes[q].boundary)[k + 1], e)
                                           => Contains(child.boundary, e)

\* C24: every stored id occurs exactly once across the items lists of the
\* nodes, the ids found in the nodes are the keys of the entity map, and the
\* boundary of the node that holds an id contains the entity's bounding box.
C24_IdsHeldOnce ==
    pc = "ready"
        => /\ HeldIds(nodes) = DOMAIN map
           /\ \A id \in DOMAIN map :
                  /\ Cardinality(Holders(nodes, id)) = 1
                  /\ \A pn \in Holders(nodes, id) :
                         Contains(nodes[pn[1]].boundary, map[id].bounds)

\* an insert subdivided a node and an id stored before it now sits in a child
C24_Witness ==
    /\ pc = "ready"
    /\ result.op = "insert" /\ result.res = "Ok" /\ result.splits # <<>>
    /\ \E id \in DOMAIN map :
          id < result.id /\ \E pn \in Holders(nodes, id) : pn[1] # Root

\* C25: the path of an entity held by a node at depth d has d + 1 symbols,
\* starts with 0, and its remaining symbols are the child indices that lead
\* from the root to that node.
C25_PathLeadsToHolder ==
    pc = "ready"
        => \A id \in DOMAIN map : \A pn \in Holders(nodes, id) :
              LET path == PathSymbols(map[id].path)
              IN  /\ TotalLen(map[id].path) = nodes[pn[1]].depth + 1
                  /\ Len(path) = nodes[pn[1]].depth + 1
                  /\ path[1] = 0
                  /\ Tail(path) = pn[1]

\* one entity moved down two levels by redistribution, another one retained
\* at the subdivided root with its one-symbol path
C25_Witness ==
    /\ pc = "ready"
    /\ ~nodes[Root].leaf
    /\ \E id \in DOMAIN map :
          /\ id < result.id
          /\ PathSymbols(map[id].path) = <<0, 3, 0>>
          /\ <<3, 0>> \in DOMAIN nodes /\ id \in Range(nodes[<<3, 0>>].items)
    /\ \E id \in DOMAIN map :
          id \in Range(nodes[Root].items) /\ PathSymbols(map[id].path) = <<0>>

\* C26: a leaf holds at most capacity items, and a node that holds more is
\* an internal node whose items are all contained in none of the boundaries
\* of its four children.
C26_LeavesWithinCapacity ==
    pc = "ready"
        => \A q \in DOMAIN nodes :
              /\ nodes[q].leaf => Len(nodes[q].items) <= nodes[q].capacity
              /\ Len(nodes[q].items) > nodes[q].capacity
                    => /\ ~nodes[q].leaf
                       /\ \A id \in Range(nodes[q].items) : \A k \in Quads :
                              ~Contains(nodes[Append(q, k)].boundary, map[id].bounds)

\* an internal node holds more items than its capacity while a leaf is full
C26_Witness ==
    /\ pc = "ready"
    /\ \E q \in DOMAIN nodes : Len(nodes[q].items) > nodes[q].capacity
    /\ \E q \in DOMAIN nodes : nodes[q].leaf /\ Len(nodes[q].items) = nodes[q].capacity

\* C27: iter_levels() yields levels() elements, levels() being one more than
\* the largest depth of a node; element k holds exactly the ids of the items
\* lists of the nodes at depth k, and the elements together hold every
\* stored id exactly once.
C27_LevelsIterator ==
    pc = "ready"
        => LET ls == IterLevels(nodes)
               deepest == CHOOSE d \in {nodes[q].depth : q \in DOMAIN nodes} :
                              \A q \in DOMAIN nodes : nodes[q].depth <= d
           IN  /\ Len(ls) = Levels(nodes)
               /\ Levels(nodes) = 1 + deepest
               /\ ~LevelsIterNext(nodes, [current_level |-> Len(ls), max_depth |-> deepest]).some
               /\ \A k \in 0..(Len(ls) - 1) :
                      /\ Range(ls[k + 1])
                             = UNION {Range(nodes[q].items) : q \in {c \in DOMAIN nodes : nodes[c].depth = k}}
                      /\ Len(ls[k + 1]) = Cardinality(Range(ls[k + 1]))
               /\ Range(Flatten(ls)) = DOMAIN map
               /\ Len(Flatten(ls)) = Cardinality(DOMAIN map)
               /\ IterLevels(nodes)[1] = nodes[Root].items

\* a tree of three levels with ids at depth 0 and at depth 2
C27_Witness ==
    /\ pc = "ready"
    /\ Levels(nodes) = 3
    /\ Len(IterLevels(nodes)) = 3
    /\ IterLevels(nodes)[1] # <<>>
    /\ IterLevels(nodes)[3] # <<>>

\* C28: when every entity stored and inserted has positive width or positive
\* height the insert returns; no entity is then held by a node narrower or
\* lower than itself, so the depth of its holder is bounded by the ratio of
\* the root's extent to its own.
C28_PositiveExtentTerminates ==
    [][(IsInsertStep /\ PositiveExtent(result'.bounds)
           /\ \A id \in DOMAIN map : PositiveExtent(map[id].bounds))
          => /\ result'.res # "StackOverflow"
             /\ pc' = "ready"
             /\ \A id \in DOMAIN map' : \A pn \in Holders(nodes', id) :
                    LET b == map'[id].bounds
                        nb == nodes'[pn[1]].boundary
                        root == nodes'[Root].boundary
                        d == nodes'[pn[1]].depth
                    IN  /\ nb.max[1] - nb.min[1] >= b.max[1] - b.min[1]
                        /\ nb.max[2] - nb.min[2] >= b.max[2] - b.min[2]
                        /\ Pow2(d) * (b.max[1] - b.min[1]) <= root.max[1] - root.min[1]
                        /\ Pow2(d) * (b.max[2] - b.min[2]) <= root.max[2] - root.min[2]]_vars

\* three entities with identical bounds in a tree of capacity 1: the third
\* insert returned
C28_Witness ==
    /\ pc = "ready"
    /\ result.op = "insert" /\ result.res = "Ok" /\ result.id = 3
    /\ nodes[Root].capacity = 1
    /\ \A id \in DOMAIN map : map[id].bounds = Box(0, 0, 2, 2)
    /\ Cardinality(DOMAIN map) = 3

(***************************************************************************)
(* C29 (as amended).  A single Base4 block returns from pop_all every      *)
(* sequence of at most 64 symbols that push_all put into it.  Of a longer  *)
(* sequence it returns the last 64 symbols as pushed and 0 in the place of *)
(* each earlier one, so the returned sequence differs from the pushed one  *)
(* exactly when one of the symbols before the last 64 is not 0.            *)
(***************************************************************************)
ZeroedOldest(ints) ==
    [k \in 1..Len(ints) |-> IF k <= Len(ints) - BlockSymbols THEN 0 ELSE ints[k]]

C30_KeyNeverOverflows ==
    /\ \A i \in 1..Len(wret) : wret[i].out = "key" /\ ~wret[i].overflow
    /\ \A i, j \in 1..Len(wret) :
          wret[i].key = wret[j].key =>
              wret[i].cx = wret[j].cx /\ wret[i].cy = wret[j].cy
====
